---------------------------- MODULE Spec2Model ----------------------------
(***************************************************************************)
(* A model of ncmdump.py: the NCMRC4 stream cipher, the                    *)
(* NeteaseCloudMusicFile container object (parse, key recovery, metadata   *)
(* extraction, payload decryption, dumping) and the batch loop of          *)
(* __main__.                                                               *)
(*                                                                         *)
(* Bytes are the integers 0..255 and a bytes object is a sequence of them. *)
(* A call that can raise returns a record whose field exc names the        *)
(* exception class ("None" when the call returns normally).                *)
(***************************************************************************)
EXTENDS Integers, Sequences, FiniteSets, TLC

(***************************************************************************)
(* Program constants                                                       *)
(***************************************************************************)
\* b"CTENFDAM"
MAGIC_HEADER == <<67, 84, 69, 78, 70, 68, 65, 77>>

\* bytes.fromhex("687A4852416D736F356B496E62617857")
AES_KEY_RC4_KEY ==
  <<104, 122, 72, 82, 65, 109, 115, 111, 53, 107, 73, 110, 98, 97, 120, 87>>

RC4_KEY_XORBYTE == 100

\* bytes.fromhex("2331346C6A6B5F215C5D2630553C2728")
AES_KEY_METADATA ==
  <<35, 49, 52, 108, 106, 107, 95, 33, 92, 93, 38, 48, 85, 60, 39, 40>>

METADATA_XORBYTE == 99

\* b"neteasecloudmusic", the argument of lstrip in _decrypt_rc4_key
RC4_KEY_PREFIX ==
  <<110, 101, 116, 101, 97, 115, 101, 99, 108, 111, 117, 100, 109, 117, 115,
    105, 99>>

\* b"163 key(Don't modify):", the argument of lstrip before b64decode
METADATA_B64_PREFIX ==
  <<49, 54, 51, 32, 107, 101, 121, 40, 68, 111, 110, 39, 116, 32, 109, 111,
    100, 105, 102, 121, 41, 58>>

\* b"music:", the argument of lstrip before json.loads
METADATA_JSON_PREFIX == <<109, 117, 115, 105, 99, 58>>

\* the size of the S box and of the key box, and the modulus of "& 0xFF"
BOX_SIZE == 256

\* the block size handed to unpad: len(AES_KEY_RC4_KEY) = len(AES_KEY_METADATA)
BLOCK_SIZE == 16

(***************************************************************************)
(* Bytes                                                                   *)
(***************************************************************************)
Min(a, b) == IF a < b THEN a ELSE b

\* s[from:] of a bytes object, from counted from 0
Drop(s, from) == SubSeq(s, from + 1, Len(s))

\* the set of byte values that occur in s
Elems(s) == {s[i] : i \in 1..Len(s)}

RECURSIVE Xor(_, _)
\* a ^ b on non-negative integers
Xor(a, b) ==
  IF a = 0 THEN b
  ELSE IF b = 0 THEN a
  ELSE (((a % 2) + (b % 2)) % 2) + 2 * Xor(a \div 2, b \div 2)

\* bytes(map(lambda b: b ^ xorbyte, data))
XorBytes(data, xorbyte) == [i \in 1..Len(data) |-> Xor(data[i], xorbyte)]

RECURSIVE FromBytesBig(_)
\* int.from_bytes(b, "big"): the byte order mistaken
FromBytesBig(b) ==
  IF Len(b) = 0 THEN 0
  ELSE b[Len(b)] + 256 * FromBytesBig(SubSeq(b, 1, Len(b) - 1))

RECURSIVE FromBytesLittle(_)
\* int.from_bytes(b, "little"); b"" gives 0 and a short b gives a short sum
FromBytesLittle(b) ==
  IF Len(b) = 0 THEN 0 ELSE b[1] + 256 * FromBytesLittle(Tail(b))

\* bytes.lstrip(chars): drops every leading byte that occurs in chars
LStrip(s, chars) ==
  LET keep == {i \in 1..Len(s) : s[i] \notin Elems(chars)}
  IN  IF keep = {} THEN <<>>
      ELSE Drop(s, (CHOOSE i \in keep : \A k \in keep : i <= k) - 1)

(***************************************************************************)
(* class NCMRC4                                                            *)
(***************************************************************************)
\* one iteration i of the "standard RC4 init" loop on st = [s_box, j]
\* one step of the first loop that copies S[j] to S[i] and does not swap
KeyScheduleStepCopy(key, st, i) ==
  LET j2 == (st.j + st.s_box[i] + key[(i % Len(key)) + 1]) % BOX_SIZE
  IN  [s_box |-> [st.s_box EXCEPT ![i] = st.s_box[j2]],
       j     |-> j2]

KeyScheduleStep(key, st, i) ==
  LET j2 == (st.j + st.s_box[i] + key[(i % Len(key)) + 1]) % BOX_SIZE
  IN  [s_box |-> [st.s_box EXCEPT ![i] = st.s_box[j2], ![j2] = st.s_box[i]],
       j     |-> j2]

RECURSIVE KeySchedule(_, _, _, _)
\* the iterations lo..hi of the "standard RC4 init" loop, in order.  The
\* range is halved, and the first half is evaluated (its j is looked at)
\* before the second half starts, only to keep the evaluation shallow.
KeySchedule(key, st, lo, hi) ==
  IF lo = hi THEN KeyScheduleStep(key, st, lo)
  ELSE LET mid   == (lo + hi) \div 2
           first == KeySchedule(key, st, lo, mid)
       IN  IF first.j >= 0 THEN KeySchedule(key, first, mid + 1, hi)
           ELSE first

\* the "non-standard keybox generate" loop
\* the key box of standard RC4 output order, read at i instead of i + 1
KeyBoxAtIndex(s_box) ==
  [i \in 0..(BOX_SIZE - 1) |->
     LET s_j  == s_box[i]
         s_jj == s_box[(s_j + i) % BOX_SIZE]
     IN  s_box[(s_jj + s_j) % BOX_SIZE]]

KeyBox(s_box) ==
  [i \in 0..(BOX_SIZE - 1) |->
     LET j    == (i + 1) % BOX_SIZE
         s_j  == s_box[j]
         s_jj == s_box[(s_j + j) % BOX_SIZE]
     IN  s_box[(s_jj + s_j) % BOX_SIZE]]

\* NCMRC4(key): i % len(key) raises ZeroDivisionError for an empty key
NCMRC4(key) ==
  IF Len(key) = 0
  THEN [exc |-> "ZeroDivisionError", eng |-> <<>>]
  ELSE LET s_box == KeySchedule(key,
                                [s_box |-> [i \in 0..(BOX_SIZE - 1) |-> i],
                                 j     |-> 0],
                                0, BOX_SIZE - 1).s_box
       IN  [exc |-> "None",
            eng |-> [_key     |-> key,
                     _s_box   |-> s_box,
                     _key_box |-> KeyBox(s_box),
                     _key_pos |-> 0]]

\* DecryptStep with the key byte added instead of xor-ed
DecryptStepAdd(st, ciphertext, k) ==
  [eng       |-> [st.eng EXCEPT !._key_pos = IF st.eng._key_pos >= 255 THEN 0
                                             ELSE st.eng._key_pos + 1],
   plaintext |-> Append(st.plaintext,
                        (ciphertext[k] + st.eng._key_box[st.eng._key_pos])
                          % 256)]

\* one turn of the for loop of NCMRC4.decrypt, on byte k of ciphertext;
\* st holds the engine and the plaintext so far
\* one byte of the loop of decrypt with the position wrapping one entry early
DecryptStepEarlyWrap(st, ciphertext, k) ==
  [eng       |-> [st.eng EXCEPT !._key_pos = IF st.eng._key_pos >= 254 THEN 0
                                             ELSE st.eng._key_pos + 1],
   plaintext |-> Append(st.plaintext,
                        Xor(ciphertext[k],
                            st.eng._key_box[st.eng._key_pos]))]

\* one byte of the loop as standard RC4 would take it, swapping two entries
\* of the table on the way
DecryptStepSwap(st, ciphertext, k) ==
  LET p == st.eng._key_pos
      q == (p + 1) % BOX_SIZE
  IN  [eng       |-> [st.eng EXCEPT
                        !._key_pos = q,
                        !._s_box = [@ EXCEPT ![p] = st.eng._s_box[q],
                                             ![q] = st.eng._s_box[p]]],
       plaintext |-> Append(st.plaintext,
                            Xor(ciphertext[k], st.eng._key_box[p]))]

DecryptStep(st, ciphertext, k) ==
  [eng       |-> [st.eng EXCEPT !._key_pos = IF st.eng._key_pos >= 255 THEN 0
                                             ELSE st.eng._key_pos + 1],
   plaintext |-> Append(st.plaintext,
                        Xor(ciphertext[k],
                            st.eng._key_box[st.eng._key_pos]))]

RECURSIVE DecryptLoop(_, _, _, _)
\* the turns lo..hi of the for loop, in order (halved as KeySchedule is)
DecryptLoop(st, ciphertext, lo, hi) ==
  IF lo = hi THEN DecryptStep(st, ciphertext, lo)
  ELSE LET mid   == (lo + hi) \div 2
           first == DecryptLoop(st, ciphertext, lo, mid)
       IN  IF first.eng._key_pos >= 0
           THEN DecryptLoop(first, ciphertext, mid + 1, hi)
           ELSE first

\* NCMRC4.decrypt: the plaintext and the engine as the call leaves it
\* decrypt starting over at entry 0 of the key box on every call
NCMRC4_decrypt_restarting(eng, ciphertext) ==
  IF Len(ciphertext) = 0 THEN [eng |-> eng, plaintext |-> <<>>]
  ELSE DecryptLoop([eng |-> [eng EXCEPT !._key_pos = 0], plaintext |-> <<>>],
                   ciphertext, 1, Len(ciphertext))

NCMRC4_decrypt(eng, ciphertext) ==
  IF Len(ciphertext) = 0 THEN [eng |-> eng, plaintext |-> <<>>]
  ELSE DecryptLoop([eng |-> eng, plaintext |-> <<>>],
                   ciphertext, 1, Len(ciphertext))

(***************************************************************************)
(* Library calls made by NeteaseCloudMusicFile                             *)
(***************************************************************************)
\* AES.new(key, AES.MODE_ECB).decrypt(data).  The block cipher itself is a
\* library primitive; it is represented by a keyed bijection on 16-byte
\* blocks that is not the identity (the block is reversed and the key is
\* subtracted bytewise).  Data that is not block aligned raises ValueError.
AES_ECB_decrypt(key, data) ==
  IF Len(data) % BLOCK_SIZE # 0
  THEN [exc |-> "ValueError", val |-> <<>>]
  ELSE [exc |-> "None",
        val |-> [i \in 1..Len(data) |->
                   LET b == (i - 1) \div BLOCK_SIZE
                       o == ((i - 1) % BLOCK_SIZE) + 1
                       r == BLOCK_SIZE + 1 - o
                   IN  (data[BLOCK_SIZE * b + r] + 256 - key[r]) % 256]]

\* Crypto.Util.Padding.unpad(padded_data, block_size, "pkcs7")
\* unpad without the checks of the padding bytes
unpad_unchecked(padded_data, block_size) ==
  LET pdata_len   == Len(padded_data)
      padding_len == padded_data[pdata_len]
  IN  IF pdata_len = 0 THEN [exc |-> "None", val |-> <<>>]
      ELSE IF padding_len > pdata_len
        THEN [exc |-> "None", val |-> padded_data]
      ELSE [exc |-> "None",
            val |-> SubSeq(padded_data, 1, pdata_len - padding_len)]

unpad(padded_data, block_size) ==
  LET pdata_len   == Len(padded_data)
      padding_len == padded_data[pdata_len]
  IN  IF pdata_len = 0 THEN [exc |-> "ValueError", val |-> <<>>]
      ELSE IF pdata_len % block_size # 0
        THEN [exc |-> "ValueError", val |-> <<>>]
      ELSE IF padding_len < 1 \/ padding_len > Min(block_size, pdata_len)
        THEN [exc |-> "ValueError", val |-> <<>>]
      ELSE IF \E i \in (pdata_len - padding_len + 1)..pdata_len :
                 padded_data[i] # padding_len
        THEN [exc |-> "ValueError", val |-> <<>>]
      ELSE [exc |-> "None",
            val |-> SubSeq(padded_data, 1, pdata_len - padding_len)]

\* the value of a byte in the base64 alphabet, 64 for a byte outside it
B64Value(c) ==
  IF c >= 65 /\ c <= 90 THEN c - 65
  ELSE IF c >= 97 /\ c <= 122 THEN c - 71
  ELSE IF c >= 48 /\ c <= 57 THEN c + 4
  ELSE IF c = 43 THEN 62
  ELSE IF c = 47 THEN 63
  ELSE 64

\* one turn of the decoding loop of binascii.a2b_base64 in its default,
\* non-strict mode, on the byte c.  st holds quad_pos, leftchar, pads, the
\* output so far, and done once a pad sequence has completed a quad ("goto
\* done").  Bytes outside the alphabet are skipped.
B64Step(st, c) ==
  IF st.done THEN st
  ELSE IF c = 61
    THEN IF st.quad_pos >= 2 /\ st.quad_pos + st.pads + 1 >= 4
         THEN [st EXCEPT !.done = TRUE]
         ELSE IF st.quad_pos >= 2 THEN [st EXCEPT !.pads = st.pads + 1]
         ELSE st
  ELSE LET v == B64Value(c)
       IN  IF v >= 64 THEN st
           ELSE IF st.quad_pos = 0
             THEN [st EXCEPT !.quad_pos = 1, !.leftchar = v, !.pads = 0]
           ELSE IF st.quad_pos = 1
             THEN [st EXCEPT !.quad_pos = 2, !.leftchar = v % 16, !.pads = 0,
                             !.out = Append(st.out,
                                            st.leftchar * 4 + (v \div 16))]
           ELSE IF st.quad_pos = 2
             THEN [st EXCEPT !.quad_pos = 3, !.leftchar = v % 4, !.pads = 0,
                             !.out = Append(st.out,
                                            st.leftchar * 16 + (v \div 4))]
           ELSE [st EXCEPT !.quad_pos = 0, !.leftchar = 0, !.pads = 0,
                           !.out = Append(st.out, st.leftchar * 64 + v)]

RECURSIVE B64Loop(_, _, _, _)
\* the turns lo..hi of the decoding loop, in order (halved as KeySchedule is)
B64Loop(st, s, lo, hi) ==
  IF lo = hi THEN B64Step(st, s[lo])
  ELSE LET mid   == (lo + hi) \div 2
           first == B64Loop(st, s, lo, mid)
       IN  IF first.quad_pos >= 0 THEN B64Loop(first, s, mid + 1, hi)
           ELSE first

\* base64.b64decode(s): a quad left dangling at the end of the input raises
\* binascii.Error
b64decode(s) ==
  LET st0 == [quad_pos |-> 0, leftchar |-> 0, pads |-> 0, out |-> <<>>,
              done |-> FALSE]
      st  == IF Len(s) = 0 THEN st0 ELSE B64Loop(st0, s, 1, Len(s))
  IN  IF ~st.done /\ st.quad_pos # 0
      THEN [exc |-> "binascii.Error", val |-> <<>>]
      ELSE [exc |-> "None", val |-> st.out]

\* imghdr.what(None, h): the PNG signature is the one kind told apart here
imghdr_what(h) ==
  IF SubSeq(h, 1, Min(8, Len(h))) = <<137, 80, 78, 71, 13, 10, 26, 10>>
  THEN "png" ELSE "None"

(***************************************************************************)
(* Metadata records.  json.loads is a library call; it is represented by   *)
(* its value on the documents that occur in the modelled files and by      *)
(* JSONDecodeError on every other text.  A parsed value is a record        *)
(* [kind, d]: kind is "dict" or "list", d maps the keys of a dict to       *)
(* their values.                                                           *)
(***************************************************************************)
EmptyDict == [k \in {} |-> ""]

\* {"format":"mp3"}
DOC_MP3 ==
  <<123, 34, 102, 111, 114, 109, 97, 116, 34, 58, 34, 109, 112, 51, 34, 125>>

\* {"format":"xyz"}
DOC_XYZ ==
  <<123, 34, 102, 111, 114, 109, 97, 116, 34, 58, 34, 120, 121, 122, 34, 125>>

\* {}
DOC_EMPTY == <<123, 125>>

\* []
DOC_LIST == <<91, 93>>

\* {"format"   (cut short: not a JSON document)
DOC_BAD == <<123, 34, 102, 111, 114, 109, 97, 116, 34>>

\* {"format":"flac","musicName":"n","album":"l","artist":[["x",1],["y",2]],
\*  "albumPic":"http://h/c"}
DOC_FLAC ==
  <<123, 34, 102, 111, 114, 109, 97, 116, 34, 58, 34, 102, 108, 97, 99,
    34, 44, 34, 109, 117, 115, 105, 99, 78, 97, 109, 101, 34, 58, 34, 110,
    34, 44, 34, 97, 108, 98, 117, 109, 34, 58, 34, 108, 34, 44, 34, 97,
    114, 116, 105, 115, 116, 34, 58, 91, 91, 34, 120, 34, 44, 49, 93, 44,
    91, 34, 121, 34, 44, 50, 93, 93, 44, 34, 97, 108, 98, 117, 109, 80,
    105, 99, 34, 58, 34, 104, 116, 116, 112, 58, 47, 47, 104, 47, 99, 34,
    125>>

\* {"format":"mp3","musicName":"n","album":"l","artist":[["x",1],["y",2]]}
DOC_MP3_ARTISTS ==
  <<123, 34, 102, 111, 114, 109, 97, 116, 34, 58, 34, 109, 112, 51, 34,
    44, 34, 109, 117, 115, 105, 99, 78, 97, 109, 101, 34, 58, 34, 110, 34,
    44, 34, 97, 108, 98, 117, 109, 34, 58, 34, 108, 34, 44, 34, 97, 114,
    116, 105, 115, 116, 34, 58, 91, 91, 34, 120, 34, 44, 49, 93, 44, 91,
    34, 121, 34, 44, 50, 93, 93, 125>>

\* {"alias":[],"format":"mp3"}
DOC_ALIAS ==
  <<123, 34, 97, 108, 105, 97, 115, 34, 58, 91, 93, 44, 34, 102, 111, 114,
    109, 97, 116, 34, 58, 34, 109, 112, 51, 34, 125>>

\* json.loads(text)
json_loads(text) ==
  CASE text = DOC_MP3 ->
         [exc |-> "None", val |-> [kind |-> "dict", d |-> [format |-> "mp3"]]]
    [] text = DOC_FLAC ->
         [exc |-> "None",
          val |-> [kind |-> "dict",
                   d    |-> [format    |-> "flac",
                             musicName |-> "n",
                             album     |-> "l",
                             artist    |-> <<<<"x", 1>>, <<"y", 2>>>>,
                             albumPic  |-> "http://h/c"]]]
    [] text = DOC_MP3_ARTISTS ->
         [exc |-> "None",
          val |-> [kind |-> "dict",
                   d    |-> [format    |-> "mp3",
                             musicName |-> "n",
                             album     |-> "l",
                             artist    |-> <<<<"x", 1>>, <<"y", 2>>>>]]]
    [] text = DOC_ALIAS ->
         [exc |-> "None",
          val |-> [kind |-> "dict", d |-> [alias |-> <<>>, format |-> "mp3"]]]
    [] text = DOC_XYZ ->
         [exc |-> "None", val |-> [kind |-> "dict", d |-> [format |-> "xyz"]]]
    [] text = DOC_EMPTY ->
         [exc |-> "None", val |-> [kind |-> "dict", d |-> EmptyDict]]
    [] text = DOC_LIST ->
         [exc |-> "None", val |-> [kind |-> "list", d |-> EmptyDict]]
    [] OTHER ->
         [exc |-> "JSONDecodeError", val |-> [kind |-> "dict", d |-> EmptyDict]]

\* self._metadata = {}
EmptyMetadata == [kind |-> "dict", d |-> EmptyDict]

\* self._metadata.get(key, default): a value that is not a dict has no get
MetadataGet(metadata, key, default) ==
  IF metadata.kind # "dict" THEN [exc |-> "AttributeError", val |-> default]
  ELSE IF key \in DOMAIN metadata.d
    THEN [exc |-> "None", val |-> metadata.d[key]]
  ELSE [exc |-> "None", val |-> default]

(***************************************************************************)
(* class NeteaseCloudMusicFile                                             *)
(***************************************************************************)
\* ncmfile.read(n) at offset pos of the file content data
Read(data, pos, n) == SubSeq(data, pos + 1, Min(pos + n, Len(data)))

\* the offset after ncmfile.read(n) at offset pos
Tell(data, pos, n) == Min(pos + n, Len(data))

\* the reads of _parse after the header check, and the object they leave
ParseSegments(data) ==
  LET hdr    == Read(data, 0, 8)
      p1     == Tell(data, 0, 8)
      gap1   == Read(data, p1, 2)
      p2     == Tell(data, p1, 2)
      ksize  == FromBytesLittle(Read(data, p2, 4))
      p3     == Tell(data, p2, 4)
      kenc   == Read(data, p3, ksize)
      p4     == Tell(data, p3, ksize)
      msize  == FromBytesLittle(Read(data, p4, 4))
      p5     == Tell(data, p4, 4)
      menc   == Read(data, p5, msize)
      p6     == Tell(data, p5, msize)
      crc32  == FromBytesLittle(Read(data, p6, 4))
      p7     == Tell(data, p6, 4)
      gap2   == Read(data, p7, 5)
      p8     == Tell(data, p7, 5)
      csize  == FromBytesLittle(Read(data, p8, 4))
      p9     == Tell(data, p8, 4)
      cover  == Read(data, p9, csize)
      p10    == Tell(data, p9, csize)
  IN  [_hdr               |-> hdr,
       _gap1              |-> gap1,
       _rc4_key_enc_size  |-> ksize,
       _rc4_key_enc       |-> kenc,
       _rc4_key           |-> <<>>,
       _metadata_enc_size |-> msize,
       _metadata_enc      |-> menc,
       _metadata          |-> EmptyMetadata,
       _crc32             |-> crc32,
       _gap2              |-> gap2,
       _cover_data_size   |-> csize,
       _cover_data        |-> cover,
       _music_data_enc    |-> Drop(data, p10),
       _music_data        |-> <<>>]

\* _parse with the header compared as far as the file goes, so that a file
\* shorter than the magic passes
_parse_prefix(data) ==
  LET hdr == Read(data, 0, 8)
  IN  IF hdr # SubSeq(MAGIC_HEADER, 1, Len(hdr))
      THEN [exc |-> "TypeError", self |-> [_hdr |-> hdr]]
      ELSE [exc |-> "None", self |-> ParseSegments(data)]

\* NeteaseCloudMusicFile.__init__ / _parse on a file whose content is data.
\* Raises TypeError on a wrong header; every later read takes what is there.
_parse(data) ==
  LET hdr == Read(data, 0, 8)
  IN  IF hdr # MAGIC_HEADER
      THEN [exc |-> "TypeError", self |-> [_hdr |-> hdr]]
      ELSE [exc |-> "None", self |-> ParseSegments(data)]

\* NeteaseCloudMusicFile._decrypt_rc4_key
_decrypt_rc4_key(self) ==
  LET rc4_key == XorBytes(self._rc4_key_enc, RC4_KEY_XORBYTE)
      dec     == AES_ECB_decrypt(AES_KEY_RC4_KEY, rc4_key)
      unp     == unpad(dec.val, Len(AES_KEY_RC4_KEY))
  IN  IF dec.exc # "None" THEN [exc |-> dec.exc, self |-> self]
      ELSE IF unp.exc # "None" THEN [exc |-> unp.exc, self |-> self]
      ELSE [exc  |-> "None",
            self |-> [self EXCEPT !._rc4_key = LStrip(unp.val, RC4_KEY_PREFIX)]]

\* FetchCover with the body of the response stored whatever its status
FetchCoverAnyStatus(self, net) ==
  LET url == MetadataGet(self._metadata, "albumPic", "")
  IN  IF url.exc # "None" \/ url.val = "" THEN [exc |-> "None", self |-> self]
      ELSE IF net.hangs THEN [exc |-> "(blocked)", self |-> self]
      ELSE IF net.raises THEN [exc |-> "None", self |-> self]
      ELSE [exc  |-> "None",
            self |-> [self EXCEPT !._cover_data = net.body,
                                  !._cover_data_size = Len(net.body)]]

\* request.urlopen(url) inside the try of _decrypt_metadata.  net is the
\* answer of the network: net.raises, or a response with status and body,
\* or net.hangs: the server accepts the request and never answers, and
\* urlopen, called without a timeout, does not return.  That is reported as
\* "(blocked)" in place of an exception.  Every exception inside the try,
\* the AttributeError of a metadata value without get and the ValueError of
\* an empty url included (both raised before a request is sent), is passed
\* over.
FetchCover(self, net) ==
  LET url == MetadataGet(self._metadata, "albumPic", "")
  IN  IF url.exc # "None" \/ url.val = "" THEN [exc |-> "None", self |-> self]
      ELSE IF net.hangs THEN [exc |-> "(blocked)", self |-> self]
      ELSE IF net.raises THEN [exc |-> "None", self |-> self]
      ELSE IF net.status < 400
        THEN [exc  |-> "None",
              self |-> [self EXCEPT !._cover_data = net.body,
                                    !._cover_data_size = Len(net.body)]]
      ELSE [exc |-> "None", self |-> self]

\* NeteaseCloudMusicFile._decrypt_metadata
\* _decrypt_metadata without its test for an empty segment
_decrypt_metadata_decoding(self, net) ==
  LET metadata == XorBytes(self._metadata_enc, METADATA_XORBYTE)
      b64      == b64decode(LStrip(metadata, METADATA_B64_PREFIX))
      dec      == AES_ECB_decrypt(AES_KEY_METADATA, b64.val)
      unp      == unpad(dec.val, Len(AES_KEY_METADATA))
      js       == json_loads(LStrip(unp.val, METADATA_JSON_PREFIX))
      loaded   == [self EXCEPT !._metadata = js.val]
  IN  IF b64.exc # "None" THEN [exc |-> b64.exc, self |-> self]
      ELSE IF dec.exc # "None" THEN [exc |-> dec.exc, self |-> self]
      ELSE IF unp.exc # "None" THEN [exc |-> unp.exc, self |-> self]
      ELSE IF js.exc # "None" THEN [exc |-> js.exc, self |-> self]
      ELSE IF self._cover_data_size <= 0
        THEN FetchCover(loaded, net)
      ELSE [exc |-> "None", self |-> loaded]

_decrypt_metadata(self, net) ==
  IF self._metadata_enc_size <= 0
  THEN [exc |-> "None", self |-> [self EXCEPT !._metadata = EmptyMetadata]]
  ELSE
    LET metadata == XorBytes(self._metadata_enc, METADATA_XORBYTE)
        b64      == b64decode(LStrip(metadata, METADATA_B64_PREFIX))
        dec      == AES_ECB_decrypt(AES_KEY_METADATA, b64.val)
        unp      == unpad(dec.val, Len(AES_KEY_METADATA))
        js       == json_loads(LStrip(unp.val, METADATA_JSON_PREFIX))
        loaded   == [self EXCEPT !._metadata = js.val]
    IN  IF b64.exc # "None" THEN [exc |-> b64.exc, self |-> self]
        ELSE IF dec.exc # "None" THEN [exc |-> dec.exc, self |-> self]
        ELSE IF unp.exc # "None" THEN [exc |-> unp.exc, self |-> self]
        ELSE IF js.exc # "None" THEN [exc |-> js.exc, self |-> self]
        ELSE IF self._cover_data_size <= 0
          THEN FetchCover(loaded, net)
        ELSE [exc |-> "None", self |-> loaded]

\* NeteaseCloudMusicFile._decrypt_music_data
_decrypt_music_data(self) ==
  LET cryptor == NCMRC4(self._rc4_key)
  IN  IF cryptor.exc # "None" THEN [exc |-> cryptor.exc, self |-> self]
      ELSE [exc  |-> "None",
            self |-> [self EXCEPT !._music_data =
                        NCMRC4_decrypt(cryptor.eng,
                                       self._music_data_enc).plaintext]]

\* NeteaseCloudMusicFile.decrypt: the three steps, the first exception ends it
decrypt(self, net) ==
  LET k == _decrypt_rc4_key(self)
      m == _decrypt_metadata(k.self, net)
      a == _decrypt_music_data(m.self)
  IN  IF k.exc # "None" THEN k
      ELSE IF m.exc # "None" THEN m
      ELSE a

(***************************************************************************)
(* Paths and storage.  A path is the sequence of the dot-separated parts   *)
(* of its final name (<<"a", "b", "ncm">> is a.b.ncm); the folder is the   *)
(* same for every output.  Storage maps a path to what was last written    *)
(* there: the bytes, the tags embedded afterwards, and for the metadata    *)
(* sidecar the record that json.dumps received.                            *)
(***************************************************************************)
\* Path.stem: the final name without its last suffix
PathStem(path) ==
  IF Len(path) > 1 THEN SubSeq(path, 1, Len(path) - 1) ELSE path

\* Path.suffix without its dot: the last part of a name of several parts
PathSuffix(path) == IF Len(path) > 1 THEN path[Len(path)] ELSE ""

\* Path.with_suffix("." + ext): replaces the last suffix, or adds one;
\* the suffix "." (ext empty) raises ValueError
with_suffix(path, ext) ==
  IF ext = "" THEN [exc |-> "ValueError", path |-> path]
  ELSE [exc |-> "None", path |-> Append(PathStem(path), ext)]

NoTags ==
  [tagged |-> FALSE, title |-> "", album |-> "",
   artist |-> [joined |-> FALSE, names |-> <<>>],
   albumartist |-> [joined |-> FALSE, names |-> <<>>],
   picture |-> [present |-> FALSE, mime |-> "", data |-> <<>>]]

\* Path.write_bytes / write_text: the content replaces what was at path
Write(fs, path, content) ==
  [q \in (DOMAIN fs) \cup {path} |-> IF q = path THEN content ELSE fs[q]]

\* the properties file_type, name, album, artists of NeteaseCloudMusicFile
file_type(self) == MetadataGet(self._metadata, "format", "")

name(self) == MetadataGet(self._metadata, "musicName", "")

album(self) == MetadataGet(self._metadata, "album", "")

artists(self) ==
  LET a == MetadataGet(self._metadata, "artist", <<>>)
  IN  [exc |-> a.exc, val |-> [i \in 1..Len(a.val) |-> a.val[i][1]]]

\* the properties cover_suffix (without its dot) and cover_mime
cover_suffix(self) ==
  imghdr_what(SubSeq(self._cover_data, 1, Min(32, Len(self._cover_data))))

cover_mime(self) == IF cover_suffix(self) = "png" THEN "image/png" ELSE ""

\* NeteaseCloudMusicFile._dump_music
_dump_music(self, path, fs) ==
  LET ft == file_type(self)
      p  == with_suffix(path, ft.val)
  IN  IF ft.exc # "None" THEN [exc |-> ft.exc, fs |-> fs, path |-> path]
      ELSE IF p.exc # "None" THEN [exc |-> p.exc, fs |-> fs, path |-> path]
      ELSE [exc  |-> "None",
            fs   |-> Write(fs, p.path,
                           [data |-> self._music_data, tags |-> NoTags,
                            meta |-> EmptyMetadata]),
            path |-> p.path]

\* the cover picture handed to the tagging library, when there is one
Picture(self) ==
  IF self._cover_data_size > 0
  THEN [present |-> TRUE, mime |-> cover_mime(self), data |-> self._cover_data]
  ELSE [present |-> FALSE, mime |-> "", data |-> <<>>]

\* NeteaseCloudMusicFile._addinfomp3.  tagenv is what the tagging library
\* does with the file: "ok", or "load_fails" when mp3.MP3(path) raises.
_addinfomp3(self, path, tagenv, fs) ==
  IF tagenv = "load_fails" THEN [exc |-> "MutagenError", fs |-> fs]
  ELSE [exc |-> "None",
        fs  |-> [fs EXCEPT ![path].tags =
                   [tagged      |-> TRUE,
                    title       |-> name(self).val,
                    album       |-> album(self).val,
                    artist      |-> [joined |-> TRUE,
                                     names  |-> artists(self).val],
                    albumartist |-> [joined |-> TRUE,
                                     names  |-> artists(self).val],
                    picture     |-> Picture(self)]]]

\* NeteaseCloudMusicFile._addinfoflac.  tagenv "image_fails": Image.open
\* raises on the cover bytes (reached only when there is a cover).
_addinfoflac(self, path, tagenv, fs) ==
  IF tagenv = "load_fails" THEN [exc |-> "MutagenError", fs |-> fs]
  ELSE IF self._cover_data_size > 0 /\ tagenv = "image_fails"
    THEN [exc |-> "UnidentifiedImageError", fs |-> fs]
  ELSE [exc |-> "None",
        fs  |-> [fs EXCEPT ![path].tags =
                   [tagged      |-> TRUE,
                    title       |-> name(self).val,
                    album       |-> album(self).val,
                    artist      |-> [joined |-> FALSE,
                                     names  |-> artists(self).val],
                    albumartist |-> [joined |-> TRUE,
                                     names  |-> artists(self).val],
                    picture     |-> Picture(self)]]]

\* NeteaseCloudMusicFile.dump_music
dump_music(self, path, tagenv, fs) ==
  LET d  == _dump_music(self, path, fs)
      ft == file_type(self).val
      t  == IF ft = "flac" THEN _addinfoflac(self, d.path, tagenv, d.fs)
            ELSE _addinfomp3(self, d.path, tagenv, d.fs)
  IN  IF d.exc # "None" THEN d
      ELSE IF ft = "flac" \/ ft = "mp3"
        THEN [exc |-> t.exc, fs |-> t.fs, path |-> d.path]
      ELSE [exc |-> "NotImplementedError", fs |-> d.fs, path |-> d.path]

\* NeteaseCloudMusicFile.dump_metadata, with the default suffix ".json".
\* io is what storage does with the write: "ok", or "write_fails" when
\* write_text raises OSError.
dump_metadata(self, path, io, fs) ==
  LET p == with_suffix(path, "json").path
  IN  IF io = "write_fails" THEN [exc |-> "OSError", fs |-> fs, path |-> p]
      ELSE [exc  |-> "None",
            fs   |-> Write(fs, p, [data |-> <<>>, tags |-> NoTags,
                                   meta |-> self._metadata]),
            path |-> p]

\* NeteaseCloudMusicFile.dump_cover
dump_cover(self, path, io, fs) ==
  LET p == with_suffix(path, cover_suffix(self)).path
  IN  IF io = "write_fails" THEN [exc |-> "OSError", fs |-> fs, path |-> p]
      ELSE [exc  |-> "None",
            fs   |-> Write(fs, p, [data |-> self._cover_data, tags |-> NoTags,
                                   meta |-> EmptyMetadata]),
            path |-> p]

(***************************************************************************)
(* Input files.  A container is written by inverting the decoding steps:   *)
(* pad, encrypt, (base64-encode and prefix,) mask, and length-prefix each  *)
(* segment.  A file of the batch is described by the record it was built   *)
(* from (src) next to its bytes, so that what the decoder recovers can be  *)
(* compared with what was put in.                                          *)
(***************************************************************************)
\* Crypto.Util.Padding.pad(data, BLOCK_SIZE, "pkcs7")
pad(data) ==
  LET n == BLOCK_SIZE - (Len(data) % BLOCK_SIZE)
  IN  data \o [i \in 1..n |-> n]

\* the inverse of AES_ECB_decrypt on block-aligned data
AES_ECB_encrypt(key, data) ==
  [i \in 1..Len(data) |->
     LET b == (i - 1) \div BLOCK_SIZE
         o == ((i - 1) % BLOCK_SIZE) + 1
     IN  (data[BLOCK_SIZE * b + (BLOCK_SIZE + 1 - o)] + key[o]) % 256]

\* the base64 character of a 6-bit value
B64Char(v) ==
  IF v < 26 THEN 65 + v
  ELSE IF v < 52 THEN 71 + v
  ELSE IF v < 62 THEN v - 4
  ELSE IF v = 62 THEN 43
  ELSE 47

RECURSIVE b64encode(_)
\* base64.b64encode(data)
b64encode(data) ==
  IF Len(data) = 0 THEN <<>>
  ELSE IF Len(data) = 1
    THEN <<B64Char(data[1] \div 4), B64Char((data[1] % 4) * 16), 61, 61>>
  ELSE IF Len(data) = 2
    THEN <<B64Char(data[1] \div 4),
           B64Char((data[1] % 4) * 16 + (data[2] \div 16)),
           B64Char((data[2] % 16) * 4), 61>>
  ELSE <<B64Char(data[1] \div 4),
         B64Char((data[1] % 4) * 16 + (data[2] \div 16)),
         B64Char((data[2] % 16) * 4 + (data[3] \div 64)),
         B64Char(data[3] % 64)>> \o b64encode(Drop(data, 3))

\* n.to_bytes(4, "little")
Int32Little(n) ==
  <<n % 256, (n \div 256) % 256, (n \div 65536) % 256, (n \div 16777216) % 256>>

\* the key segment that holds the padded plaintext plain
KeySegment(plain) ==
  XorBytes(AES_ECB_encrypt(AES_KEY_RC4_KEY, plain), RC4_KEY_XORBYTE)

\* the metadata segment that holds the padded plaintext plain
MetadataSegment(plain) ==
  XorBytes(METADATA_B64_PREFIX \o
             b64encode(AES_ECB_encrypt(AES_KEY_METADATA, plain)),
           METADATA_XORBYTE)

\* the audio segment: transform(fresh_engine(K), A); A itself without a key
AudioSegment(K, A) ==
  IF Len(K) = 0 THEN A ELSE NCMRC4_decrypt(NCMRC4(K).eng, A).plaintext

\* the bytes of the container with the given fields, cut after cut bytes
\* when cut >= 0
Container(gap1, kseg, mseg, crc, gap2, cover, audio, cut) ==
  LET whole == MAGIC_HEADER \o gap1 \o Int32Little(Len(kseg)) \o kseg
                 \o Int32Little(Len(mseg)) \o mseg \o crc \o gap2
                 \o Int32Little(Len(cover)) \o cover \o audio
  IN  IF cut >= 0 THEN SubSeq(whole, 1, Min(cut, Len(whole))) ELSE whole

(***************************************************************************)
(* The files of the batch                                                  *)
(***************************************************************************)
\* the number of files of the batch
NumFiles == 2

\* b"testkey"
KEY_TESTKEY == <<116, 101, 115, 116, 107, 101, 121>>

\* b"1x"
KEY_1X == <<49, 120>>

\* b"music" and b"key", key plaintexts without the prefix
KEY_MUSIC == <<109, 117, 115, 105, 99>>

KEY_KEY == <<107, 101, 121>>

\* b"AUDIOBYTES"
AUDIOBYTES == <<65, 85, 68, 73, 79, 66, 89, 84, 69, 83>>

\* the eight bytes of the PNG signature, standing for a cover image
PNG_COVER == <<137, 80, 78, 71, 13, 10, 26, 10>>

\* one block that does not end in PKCS#7 padding (its last byte is 0)
BadlyPadded(text) ==
  LET n == BLOCK_SIZE - (Len(text) % BLOCK_SIZE) IN text \o [i \in 1..n |-> 0]

\* the key segments: K is the raw key put in, kplain the padded plaintext
\* (empty for L1 = 0)
KeyChoices ==
  {[K |-> k, kplain |-> pad(RC4_KEY_PREFIX \o k)] : k \in {KEY_TESTKEY, KEY_1X}}
    \cup {[K |-> <<>>, kplain |-> BadlyPadded(RC4_KEY_PREFIX)],
          [K |-> <<>>, kplain |-> <<>>]}

\* the metadata segments: doc is the record text put in, mplain the padded
\* plaintext (empty for L2 = 0)
MetadataChoices ==
  {[doc |-> t, mplain |-> pad(METADATA_JSON_PREFIX \o t)] :
     t \in {DOC_MP3, DOC_XYZ, DOC_EMPTY, DOC_LIST, DOC_BAD}}
    \cup {[doc |-> DOC_MP3, mplain |-> BadlyPadded(METADATA_JSON_PREFIX \o DOC_MP3)],
          [doc |-> <<>>, mplain |-> <<>>]}

\* two fillings of the fields that _parse reads and never looks at (the
\* checksum stays below 2^31, the range of the integers of the checker)
ReservedChoices ==
  {[gap1 |-> <<0, 0>>, crc |-> <<0, 0, 0, 0>>, gap2 |-> <<0, 0, 0, 0, 0>>],
   [gap1 |-> <<1, 112>>, crc |-> <<94, 173, 190, 111>>,
    gap2 |-> <<1, 0, 0, 0, 2>>]}

\* the container with the given key segment, metadata segment, unread
\* fields and cover
Complete(k, m, r, c) ==
  [magic |-> MAGIC_HEADER, K |-> k.K, kplain |-> k.kplain, doc |-> m.doc,
   mplain |-> m.mplain, gap1 |-> r.gap1, crc |-> r.crc, gap2 |-> r.gap2,
   cover |-> c, A |-> AUDIOBYTES, cut |-> -1]

\* the complete containers
WellFormed ==
  {Complete(k, m, r, c) :
     k \in KeyChoices, m \in MetadataChoices, r \in ReservedChoices,
     c \in {<<>>, PNG_COVER}}

\* the container every cut and every wrong header is made from
BaseFile ==
  [magic |-> MAGIC_HEADER, K |-> KEY_1X, kplain |-> pad(RC4_KEY_PREFIX \o KEY_1X),
   doc |-> DOC_MP3, mplain |-> pad(METADATA_JSON_PREFIX \o DOC_MP3),
   gap1 |-> <<1, 112>>, crc |-> <<94, 173, 190, 111>>,
   gap2 |-> <<1, 0, 0, 0, 2>>, cover |-> PNG_COVER, A |-> AUDIOBYTES,
   cut |-> -1]

\* the bytes of the file described by src
FileBytes(src) ==
  LET whole == Container(src.gap1, KeySegment(src.kplain),
                         IF Len(src.mplain) = 0 THEN <<>>
                         ELSE MetadataSegment(src.mplain),
                         src.crc, src.gap2, src.cover,
                         AudioSegment(src.K, src.A), src.cut)
  IN  src.magic \o Drop(whole, Min(Len(MAGIC_HEADER), Len(whole)))

\* the length of the base file
BaseLen == Len(FileBytes(BaseFile))

\* the base file cut short after n bytes
Cut(n) ==
  [BaseFile EXCEPT !.cut = n,
                   !.magic = SubSeq(MAGIC_HEADER, 1, Min(n, Len(MAGIC_HEADER)))]

\* the base file cut short after every number of bytes
Truncated == {Cut(n) : n \in 0..(BaseLen - 1)}

\* complete files whose first eight bytes are not the magic
BadMagic ==
  {[BaseFile EXCEPT !.magic = <<67, 84, 69, 78, 70, 68, 65, 88>>],
   [BaseFile EXCEPT !.magic = <<0, 0, 0, 0, 0, 0, 0, 0>>]}

\* padding whose last byte is a valid count that the bytes before it do not
\* repeat
MisPadded(text) ==
  LET n == BLOCK_SIZE - (Len(text) % BLOCK_SIZE)
  IN  text \o [i \in 1..n |-> IF i = n THEN n ELSE 0]

\* the base file with the record text t and the cover c
WithRecord(t, c) ==
  [BaseFile EXCEPT !.doc = t, !.mplain = pad(METADATA_JSON_PREFIX \o t),
                   !.cover = c]

\* complete files with the records that carry a title, an album, two
\* artists and (the flac one) a cover url, with and without a cover segment;
\* and a file whose key segment is padded with a wrong count
Special ==
  {WithRecord(t, c) : t \in {DOC_FLAC, DOC_MP3_ARTISTS}, c \in {<<>>, PNG_COVER}}
    \cup {[BaseFile EXCEPT !.K = <<>>,
                           !.kplain = MisPadded(RC4_KEY_PREFIX \o KEY_1X)]}
    \cup {WithRecord(DOC_ALIAS, PNG_COVER)}
    \cup {[BaseFile EXCEPT !.K = k, !.kplain = pad(k)] :
            k \in {KEY_MUSIC, KEY_KEY}}
    \cup {[BaseFile EXCEPT !.K = <<>>, !.kplain = pad(RC4_KEY_PREFIX)]}

\* the files given to the parser alone
ParseSources == WellFormed \cup Truncated \cup BadMagic

\* the files of the batch: the complete containers with one filling of the
\* unread fields (every key segment and every metadata segment without a
\* cover, the ones with the key b"1x" with a cover too), the base file cut
\* inside the header, the key segment, the metadata segment, the cover and
\* the audio, the wrong headers and the special files
Sources ==
  {f \in WellFormed :
     f.gap1 = BaseFile.gap1 /\ (f.K = KEY_1X \/ f.cover = <<>>)}
    \cup {Cut(n) : n \in {0, 5, 12, 30, 80, 130, 140}}
    \cup BadMagic
    \cup Special

\* the names of the input files (each has the suffix .ncm)
Names == {<<"a", "ncm">>, <<"a", "b", "ncm">>}

\* the names that can be given on the command line
ArgNames == Names \cup {<<"a", "txt">>}

\* one file for each way an iteration can end: dumped, wrong header, key
\* segment that does not unpad, metadata segment that does not unpad
Later ==
  {BaseFile, Cut(5),
   [BaseFile EXCEPT !.K = <<>>, !.kplain = BadlyPadded(RC4_KEY_PREFIX)],
   [BaseFile EXCEPT !.mplain = BadlyPadded(METADATA_JSON_PREFIX \o DOC_MP3)]}

\* the batch takes its files from these: every source under the first name,
\* the base file under every name
Inputs ==
  {[name |-> <<"a", "ncm">>, src |-> f] : f \in Sources \cup Later}
    \cup {[name |-> n, src |-> BaseFile] : n \in Names}

\* the files that can be found under the name n by the iteration i: any
\* input of that name by the first, one of Later by the others
InputsAt(i, n) ==
  {k \in Inputs : k.name = n /\ (i = 0 \/ k.src \in Later)}

\* what request.urlopen can do
NetAnswers ==
  {[raises |-> TRUE,  hangs |-> FALSE, status |-> 0,   body |-> <<>>],
   [raises |-> FALSE, hangs |-> FALSE, status |-> 200, body |-> PNG_COVER],
   [raises |-> FALSE, hangs |-> FALSE, status |-> 404, body |-> <<60, 33>>],
   [raises |-> FALSE, hangs |-> TRUE,  status |-> 0,   body |-> <<>>]}

\* what the tagging library can do
TagAnswers == {"ok", "load_fails", "image_fails"}

\* what storage can do with the write of a sidecar
StorageAnswers == {"ok", "write_fails"}

(***************************************************************************)
(* src/asmr.py: XSession.request and AsmrSite.download_file                *)
(***************************************************************************)
\* the save paths of the files of one track
SavePaths == {"RJ1/a.mp3", "RJ1/b.wav"}

\* the chunks res.iter_content(chunk_size) yields for the media of a file
MEDIA == <<1, 2>>

\* the one chunk of the page a server sends with an error status
ERROR_PAGE == <<9>>

\* what a request meets: the session raises (no connection, a timeout), or
\* the server answers with a status and a body, of which the connection
\* delivers the first chunks before it is closed
Answers ==
  {[raises |-> TRUE, status_code |-> 0, body |-> <<>>, delivered |-> 0]}
    \cup {[raises |-> FALSE, status_code |-> 200, body |-> MEDIA, delivered |-> n] :
            n \in 0..Len(MEDIA)}
    \cup {[raises |-> FALSE, status_code |-> s, body |-> b, delivered |-> Len(b)] :
            s \in {200, 404, 500}, b \in {<<>>, ERROR_PAGE}}

\* save_path.open("wb") succeeds or raises OSError
OpenAnswers == {"ok", "OSError"}

\* requests.Response(): no status, no raw stream, no headers
EmptyResponse == [status_code |-> -1, raw |-> "None", body |-> <<>>, delivered |-> 0]

\* Response.ok
ok(res) == res.status_code >= 0 /\ res.status_code < 400

\* XSession.request: any exception of the session is logged and answered
\* with an empty Response; a status that is not ok is logged as a warning,
\* and the response is returned as it is
XSession_request(answer) ==
  IF answer.raises
  THEN [res |-> EmptyResponse, logged |-> "error"]
  ELSE LET res == [status_code |-> answer.status_code,
                   raw         |-> "stream",
                   body        |-> answer.body,
                   delivered   |-> answer.delivered]
       IN  [res |-> res, logged |-> IF ok(res) THEN "None" ELSE "warning"]

\* res.iter_content(chunk_size): the chunks it yields, and the exception that
\* ends the iteration: self.raw.read on a response without a raw stream, or
\* the connection closed before the whole body came
iter_content(res) ==
  [chunks |-> SubSeq(res.body, 1, res.delivered),
   exc    |-> IF res.raw = "None" THEN "AttributeError"
              ELSE IF res.delivered < Len(res.body) THEN "ChunkedEncodingError"
              ELSE "None"]

\* save_path is not a file; save_path holds data
NotAFile == [is_file |-> FALSE, st_size |-> 0, data |-> <<>>]
SavedFile(data) == [is_file |-> TRUE, st_size |-> Len(data), data |-> data]

\* AsmrSite.download_file(url, save_path): the answer to the HEAD request
\* only sizes the progress bar; the body of the GET request is written
\* chunk by chunk, and any exception under the try removes the file
download_file(saved, save_path, head, get, open) ==
  IF saved[save_path].is_file /\ saved[save_path].st_size > 0
  THEN [ret |-> TRUE, files |-> saved]
  ELSE LET content_length == Len(XSession_request(head).res.body)
           res == XSession_request(get).res
           it == iter_content(res)
       IN  IF open = "OSError" \/ it.exc # "None"
           THEN [ret |-> FALSE, files |-> [saved EXCEPT ![save_path] = NotAFile]]
           ELSE [ret |-> TRUE,
                 files |-> [saved EXCEPT ![save_path] = SavedFile(it.chunks)]]

\* download_file has not been called, and no file has been saved
NoDownload == [files |-> [p \in SavePaths |-> NotAFile],
               last  |-> [made |-> FALSE, save_path |-> "", before |-> NotAFile,
                          get |-> CHOOSE a \in Answers : a.raises, ret |-> FALSE]]

(***************************************************************************)
(* The batch loop of __main__                                              *)
(***************************************************************************)
VARIABLES
  args,         \* the flags --dump-metadata and --dump-cover
  files,        \* the list of the files to dump
  reported,     \* for each finished file, whether its iteration logged an ERROR
  pc,           \* the statement of the loop body that runs next
  idx,          \* how often progress.advance(task) was called
  ncm_path,     \* the name of the file of this iteration
  src,          \* what the file of this iteration was built from
  content,      \* the bytes of the file of this iteration
  ncmfile,      \* the NeteaseCloudMusicFile object of this iteration
  output_path,  \* out_folder.joinpath(ncm_path.stem)
  music_path,   \* the path returned by dump_music
  exc,          \* the exception that left the try block, "None" without one
  fs,           \* the output files this iteration has written
  log,          \* the lines this iteration has passed to progress.log
  rc4,          \* an NCMRC4 engine used on its own, as NCMRC4(key) left it
  calls,        \* the decrypt calls made on rc4: position before, input, output
  prev,         \* the key and the first call of the engine rc4 replaced
  rc4_init,     \* the two loops of NCMRC4.__init__, as far as they have run
  asmr          \* the files AsmrSite.download_file has left, and its last call

vars == <<args, files, reported, pc, idx, ncm_path, src, content, ncmfile, output_path,
          music_path, exc, fs, log, rc4, calls, prev, rc4_init, asmr>>

\* the variables of an engine used on its own
cipher == <<rc4, calls, prev, rc4_init>>

\* the variables of the batch loop
batch == <<args, files, reported, pc, idx, ncm_path, src, content, ncmfile, output_path,
           music_path, exc, fs, log>>

\* no engine has been constructed
NoEngine == [exc |-> "unbound", eng |-> <<>>]

NoCall == [key |-> <<>>, data |-> <<>>, out |-> <<>>, made |-> FALSE]

\* no constructor of an engine is under way
NoLoop == [at |-> "none", key |-> <<>>, s_box |-> <<>>, key_box |-> <<>>,
           i |-> 0, j |-> 0]

\* before an object exists
NoObject == [_hdr |-> <<>>]

NoPath == <<>>

NoFiles == [q \in {} |-> NoTags]

\* the loop variables before an iteration
Idle ==
  /\ ncm_path = NoPath
  /\ src = BaseFile
  /\ content = <<>>
  /\ ncmfile = NoObject
  /\ output_path = NoPath
  /\ music_path = NoPath
  /\ exc = "None"
  /\ fs = NoFiles
  /\ log = <<>>

Init ==
  /\ args \in [dump_metadata : BOOLEAN, dump_cover : BOOLEAN]
  /\ files \in [1..NumFiles -> ArgNames]
  /\ reported = <<>>
  /\ pc = "main"
  /\ idx = 0
  /\ Idle
  /\ rc4 = NoEngine
  /\ calls = <<>>
  /\ prev = NoCall
  /\ rc4_init = NoLoop
  /\ asmr = NoDownload

\* files = list(filter(lambda p: p.suffix == ".ncm", map(Path, files)));
\* without a file the help is printed and the run is over
Main ==
  /\ pc = "main"
  /\ files' = SelectSeq(files, LAMBDA p : PathSuffix(p) = "ncm")
  /\ pc' = IF files' = <<>> THEN "end" ELSE "for"
  /\ UNCHANGED <<asmr, cipher, args, reported, idx, ncm_path, src, content, ncmfile, output_path,
                 music_path, exc, fs, log>>

\* for ncm_path in files: output_path = out_folder.joinpath(ncm_path.stem).
\* The file at that path is one of the inputs under that name.
ForNext ==
  /\ pc = "for"
  /\ idx < Len(files)
  /\ \E i \in InputsAt(idx, files[idx + 1]) :
       /\ ncm_path' = i.name
       /\ src' = i.src
       /\ content' = FileBytes(i.src)
       /\ output_path' = PathStem(i.name)
  /\ pc' = "init"
  /\ UNCHANGED <<asmr, cipher, args, files, reported, idx, ncmfile, music_path, exc, fs, log>>

\* the loop is exhausted
ForEnd ==
  /\ pc = "for"
  /\ idx = Len(files)
  /\ pc' = "end"
  /\ UNCHANGED <<asmr, cipher, args, files, reported, idx, ncm_path, src, content, ncmfile, output_path,
                 music_path, exc, fs, log>>

\* NeteaseCloudMusicFile(ncm_path)
Construct ==
  /\ pc = "init"
  /\ LET r == _parse(content)
     IN  /\ ncmfile' = r.self
         /\ exc' = r.exc
         /\ pc' = IF r.exc = "None" THEN "decrypt" ELSE "except"
  /\ UNCHANGED <<asmr, cipher, args, files, reported, idx, ncm_path, src, content, output_path, music_path,
                 fs, log>>

\* .decrypt().  When the cover request is never answered the call does not
\* return: the iteration stays inside urlopen.
Decrypt ==
  /\ pc = "decrypt"
  /\ \E net \in NetAnswers :
       LET r == decrypt(ncmfile, net)
       IN  /\ ncmfile' = r.self
           /\ exc' = IF r.exc = "(blocked)" THEN "None" ELSE r.exc
           /\ pc' = IF r.exc = "(blocked)" THEN "urlopen"
                    ELSE IF r.exc = "None" THEN "dump_music"
                    ELSE "except"
  /\ UNCHANGED <<asmr, cipher, args, files, reported, idx, ncm_path, src, content, output_path, music_path,
                 fs, log>>

\* music_path = ncmfile.dump_music(output_path)
DumpMusic ==
  /\ pc = "dump_music"
  /\ \E tagenv \in TagAnswers :
       LET r == dump_music(ncmfile, output_path, tagenv, fs)
       IN  /\ fs' = r.fs
           /\ exc' = r.exc
           /\ music_path' = IF r.exc = "None" THEN r.path ELSE music_path
           /\ pc' = IF r.exc = "None" THEN "dump_metadata" ELSE "except"
  /\ UNCHANGED <<asmr, cipher, args, files, reported, idx, ncm_path, src, content, ncmfile, output_path, log>>

\* if dump_metadata: ncmfile.dump_metadata(output_path)
DumpMetadata ==
  /\ pc = "dump_metadata"
  /\ IF args.dump_metadata
     THEN \E io \in StorageAnswers :
            LET r == dump_metadata(ncmfile, output_path, io, fs)
            IN  /\ fs' = r.fs
                /\ exc' = r.exc
                /\ pc' = IF r.exc = "None" THEN "dump_cover" ELSE "except"
     ELSE /\ pc' = "dump_cover"
          /\ UNCHANGED <<fs, exc>>
  /\ UNCHANGED <<asmr, cipher, args, files, reported, idx, ncm_path, src, content, ncmfile, output_path,
                 music_path, log>>

\* if dump_cover: ncmfile.dump_cover(output_path)
DumpCover ==
  /\ pc = "dump_cover"
  /\ IF args.dump_cover
     THEN \E io \in StorageAnswers :
            LET r == dump_cover(ncmfile, output_path, io, fs)
            IN  /\ fs' = r.fs
                /\ exc' = r.exc
                /\ pc' = IF r.exc = "None" THEN "else" ELSE "except"
     ELSE /\ pc' = "else"
          /\ UNCHANGED <<fs, exc>>
  /\ UNCHANGED <<asmr, cipher, args, files, reported, idx, ncm_path, src, content, ncmfile, output_path,
                 music_path, log>>

\* except: with the first failure ending the run
ExceptStops ==
  /\ pc = "except"
  /\ log' = Append(log, [level |-> "ERROR", text |-> exc])
  /\ pc' = "end"
  /\ UNCHANGED <<asmr, cipher, args, files, reported, idx, ncm_path, src, content, ncmfile,
                 output_path, music_path, exc, fs>>

\* except Exception as e: progress.log(ERROR)
Except ==
  /\ pc = "except"
  /\ log' = Append(log, [level |-> "ERROR", text |-> exc])
  /\ pc' = "finally"
  /\ UNCHANGED <<asmr, cipher, args, files, reported, idx, ncm_path, src, content, ncmfile, output_path,
                 music_path, exc, fs>>

\* else: the two warnings
Else ==
  /\ pc = "else"
  /\ log' = log
       \o (IF ncmfile._metadata.d = EmptyDict
           THEN <<[level |-> "WARNING", text |-> "no metadata found"]>>
           ELSE <<>>)
       \o (IF Len(ncmfile._cover_data) = 0
           THEN <<[level |-> "WARNING", text |-> "no cover data found"]>>
           ELSE <<>>)
  /\ pc' = "finally"
  /\ UNCHANGED <<asmr, cipher, args, files, reported, idx, ncm_path, src, content, ncmfile, output_path,
                 music_path, exc, fs>>

\* finally: progress.advance(task); the loop variables of the iteration are
\* not read again before the next iteration sets them
Finally ==
  /\ pc = "finally"
  /\ idx' = idx + 1
  /\ reported' = Append(reported, IF exc = "None" THEN "dumped" ELSE "ERROR")
  /\ pc' = "for"
  /\ ncm_path' = NoPath
  /\ src' = BaseFile
  /\ content' = <<>>
  /\ ncmfile' = NoObject
  /\ output_path' = NoPath
  /\ music_path' = NoPath
  /\ exc' = "None"
  /\ fs' = NoFiles
  /\ log' = <<>>
  /\ UNCHANGED <<asmr, cipher, args, files>>

Next ==
  \/ Main
  \/ ForNext
  \/ ForEnd
  \/ Construct
  \/ Decrypt
  \/ DumpMusic
  \/ DumpMetadata
  \/ DumpCover
  \/ Except
  \/ Else
  \/ Finally

Spec == Init /\ [][Next]_vars

\* the positions of the loop
Positions ==
  {"main", "for", "init", "decrypt", "urlopen", "dump_music", "dump_metadata",
   "dump_cover", "except", "else", "finally", "end"}

\* the program leaves the statement it is at.  It stays only at the end of
\* the run and inside a urlopen that does not return; every step of Next
\* leaves its statement.
Advance ==
  /\ pc \notin {"end", "urlopen"}
  /\ pc' \in Positions \ {pc}

\* the interpreter goes on running as long as there is a statement to run
SpecLive == Spec /\ WF_pc(Advance)

(***************************************************************************)
(* The parser on its own: NeteaseCloudMusicFile(path) on every file of     *)
(* ParseSources.                                                           *)
(***************************************************************************)
InitParse ==
  /\ args = [dump_metadata |-> FALSE, dump_cover |-> FALSE]
  /\ files = <<>>
  /\ reported = <<>>
  /\ pc = "init"
  /\ idx = 0
  /\ ncm_path = <<"a", "ncm">>
  /\ src \in ParseSources
  /\ content = FileBytes(src)
  /\ ncmfile = NoObject
  /\ output_path = <<"a">>
  /\ music_path = NoPath
  /\ exc = "None"
  /\ fs = NoFiles
  /\ log = <<>>
  /\ rc4 = NoEngine
  /\ calls = <<>>
  /\ prev = NoCall
  /\ rc4_init = NoLoop
  /\ asmr = NoDownload

SpecParse == InitParse /\ [][Construct]_vars

(***************************************************************************)
(* An NCMRC4 engine on its own: engines are constructed and decrypt is     *)
(* called on the latest one.                                               *)
(***************************************************************************)
\* the longest payload built from PayloadBytes
MaxLen == 1

\* the number of decrypt calls made on one engine
MaxCalls == 2

PayloadBytes == {255}

\* a payload longer than the key box; after it the engine of b"1x" stands at
\* an entry of its key box that holds the same byte as entry 0
LongPayload == [i \in 1..(BOX_SIZE + 33) |-> (7 * i) % 256]

Payloads ==
  UNION {[1..n -> PayloadBytes] : n \in 0..MaxLen} \cup {LongPayload}

\* the keys an engine is constructed with (the last one is empty)
CipherKeys == {KEY_TESTKEY, KEY_1X, <<>>}

InitCipher ==
  /\ args = [dump_metadata |-> FALSE, dump_cover |-> FALSE]
  /\ files = <<>>
  /\ reported = <<>>
  /\ pc = "end"
  /\ idx = 0
  /\ Idle
  /\ rc4 = NoEngine
  /\ calls = <<>>
  /\ prev = NoCall
  /\ rc4_init = NoLoop
  /\ asmr = NoDownload

\* NCMRC4(key); the engine it replaces is remembered by its first call
CipherNew ==
  /\ \E key \in CipherKeys : rc4' = NCMRC4(key)
  /\ calls' = <<>>
  /\ prev' = IF calls # <<>>
             THEN [key |-> rc4.eng._key, data |-> calls[1].data,
                   out |-> calls[1].out, made |-> TRUE]
             ELSE prev
  /\ UNCHANGED <<rc4_init, batch, asmr>>

\* rc4.decrypt(data), on a payload or on what the engine before returned
CipherDecrypt ==
  /\ rc4.exc = "None"
  /\ Len(calls) < MaxCalls
  /\ \E data \in Payloads \cup {prev.out} :
       LET r == NCMRC4_decrypt(rc4.eng, data)
       IN  /\ rc4' = [rc4 EXCEPT !.eng = r.eng]
           /\ calls' = Append(calls, [pos  |-> rc4.eng._key_pos,
                                      data |-> data,
                                      out  |-> r.plaintext])
  /\ UNCHANGED <<prev, rc4_init, batch, asmr>>

NextCipher == CipherNew \/ CipherDecrypt

SpecCipher == InitCipher /\ [][NextCipher]_vars

(***************************************************************************)
(* What the files of the batch were built from                             *)
(***************************************************************************)
\* the file is complete and starts with the magic
Intact(f) == f.cut = -1 /\ f.magic = MAGIC_HEADER

\* the key segment encodes the raw key f.K by the inverse of the key recovery
EncodesKey(f) == Intact(f) /\ f.kplain = pad(RC4_KEY_PREFIX \o f.K)

\* the metadata segment encodes the text f.doc by the inverse of the
\* metadata extraction
EncodesDoc(f) ==
  Intact(f) /\ Len(f.doc) > 0 /\ f.mplain = pad(METADATA_JSON_PREFIX \o f.doc)

\* _music_data is the transform of a fresh engine with the recovered key
AudioDecrypted(before, after) ==
  /\ Len(after._rc4_key) > 0
  /\ after._music_data =
       NCMRC4_decrypt(NCMRC4(after._rc4_key).eng,
                      before._music_data_enc).plaintext

(***************************************************************************)
(* Properties                                                              *)
(***************************************************************************)
\* C1: for a container built by inverting the decoding steps (raw key K, a
\* record with format "mp3", an empty cover, audio = transform(fresh(K), A)),
\* decrypt() returns with the audio equal to A, the metadata equal to the
\* record and no cover, and dump_music does not raise the unsupported-format
\* error.
EndToEndDecode ==
  [][(EncodesKey(src) /\ EncodesDoc(src) /\ src.doc = DOC_MP3
        /\ Len(src.K) > 0 /\ src.cover = <<>>)
       => /\ pc = "decrypt"
               => /\ exc' = "None"
                  /\ ncmfile'._music_data = src.A
                  /\ ncmfile'._metadata = json_loads(src.doc).val
                  /\ ncmfile'._cover_data = <<>>
          /\ pc = "dump_music" => exc' # "NotImplementedError"]_vars

\* C2: for every raw key K, _decrypt_rc4_key on the key segment that encodes
\* "neteasecloudmusic" ++ K recovers exactly K.
KeyRoundTrip ==
  [][(pc = "decrypt" /\ EncodesKey(src)) => ncmfile'._rc4_key = src.K]_vars

\* C3: two fresh engines with the same key undo each other: when the first
\* call on an engine gets what the first call on the engine before returned,
\* it returns what that call was given.
SelfInverse ==
  (/\ rc4.exc = "None"
   /\ calls # <<>>
   /\ prev.made
   /\ prev.key = rc4.eng._key
   /\ calls[1].data = prev.out)
    => calls[1].out = prev.data

SelfInverseWitness ==
  /\ rc4.exc = "None"
  /\ calls # <<>>
  /\ prev.made
  /\ prev.key = rc4.eng._key
  /\ calls[1].data = prev.out
  /\ Len(prev.data) > BOX_SIZE

\* C4: a file that ends before the end of its cover segment (inside a length
\* field, a declared segment or a field between them) is not parsed: _parse
\* raises, and no object with a segment shorter than declared is returned.
ShortReadIsError ==
  /\ (src.cut >= 0 /\ src.cut < BaseLen - Len(src.A)) => pc # "decrypt"
  /\ pc = "decrypt"
       => /\ Len(ncmfile._rc4_key_enc) = ncmfile._rc4_key_enc_size
          /\ Len(ncmfile._metadata_enc) = ncmfile._metadata_enc_size
          /\ Len(ncmfile._cover_data) = ncmfile._cover_data_size

\* C5: _parse of a complete container returns the key segment, the metadata
\* segment, the cover segment and the audio segment that were written, at
\* the offsets 14, 18+L1, 31+L1+L2 and 31+L1+L2+L3, whatever the unread
\* fields hold; a length of 0 gives an empty segment.
ParserRoundTrip ==
  (pc # "init" /\ Intact(src))
    => LET kseg == KeySegment(src.kplain)
           mseg == IF Len(src.mplain) = 0 THEN <<>>
                   ELSE MetadataSegment(src.mplain)
           L1   == Len(kseg)
           L2   == Len(mseg)
           L3   == Len(src.cover)
       IN  /\ pc = "decrypt"
           /\ exc = "None"
           /\ ncmfile._rc4_key_enc_size = L1
           /\ ncmfile._rc4_key_enc = kseg
           /\ ncmfile._rc4_key_enc = SubSeq(content, 15, 14 + L1)
           /\ ncmfile._metadata_enc_size = L2
           /\ ncmfile._metadata_enc = mseg
           /\ ncmfile._metadata_enc = SubSeq(content, 19 + L1, 18 + L1 + L2)
           /\ ncmfile._cover_data_size = L3
           /\ ncmfile._cover_data = src.cover
           /\ ncmfile._cover_data
                = SubSeq(content, 32 + L1 + L2, 31 + L1 + L2 + L3)
           /\ ncmfile._music_data_enc = AudioSegment(src.K, src.A)
           /\ ncmfile._music_data_enc = Drop(content, 31 + L1 + L2 + L3)

ParserRoundTripWitness ==
  /\ pc = "decrypt"
  /\ Intact(src)
  /\ ncmfile._rc4_key_enc_size > 0
  /\ ncmfile._metadata_enc_size = 0
  /\ ncmfile._metadata_enc = <<>>
  /\ ncmfile._cover_data_size > 0
  /\ ncmfile._gap1 # <<0, 0>>
  /\ ncmfile._crc32 # 0

\* the file of this iteration does not start with the eight magic bytes
BadHeader ==
  /\ pc \notin {"main", "for", "end"}
  /\ SubSeq(content, 1, Min(8, Len(content))) # MAGIC_HEADER

\* C6: on a file whose first eight bytes are not the magic (a shorter file
\* included) the constructor raises before it reads a segment, the iteration
\* writes no file and logs the error, and the loop goes on to its next turn.
BadMagicFails ==
  [][BadHeader
       => /\ pc \in {"init", "except", "finally"}
          /\ fs' = NoFiles
          /\ pc = "init"
               => /\ pc' = "except"
                  /\ exc' = "TypeError"
                  /\ DOMAIN ncmfile' = {"_hdr"}
          /\ pc = "except"
               => /\ pc' = "finally"
                  /\ log' = <<[level |-> "ERROR", text |-> "TypeError"]>>
          /\ pc = "finally"
               => /\ pc' = "for"
                  /\ idx' = idx + 1]_vars

BadMagicWitness ==
  /\ BadHeader
  /\ pc = "finally"
  /\ exc = "TypeError"
  /\ Len(content) \in 1..7
  /\ idx = 1
  /\ fs = NoFiles

\* C7: when unpadding the decrypted metadata segment fails, the metadata
\* becomes the empty record, decrypt() raises nothing and the audio is
\* decrypted.
MetadataPaddingRecovered ==
  [][(/\ pc = "decrypt"
      /\ EncodesKey(src)
      /\ Len(src.mplain) > 0
      /\ unpad(src.mplain, BLOCK_SIZE).exc # "None")
       => /\ exc' = "None"
          /\ ncmfile'._metadata = EmptyMetadata
          /\ AudioDecrypted(ncmfile, ncmfile')]_vars

\* C8: when the metadata segment decrypts and unpads but the text is not a
\* JSON object, the metadata becomes the empty record, decrypt() returns and
\* the audio is decrypted.
MalformedRecordDegrades ==
  [][(/\ pc = "decrypt"
      /\ EncodesKey(src)
      /\ EncodesDoc(src)
      /\ \/ json_loads(src.doc).exc # "None"
         \/ json_loads(src.doc).val.kind # "dict")
       => /\ exc' = "None"
          /\ ncmfile'._metadata = EmptyMetadata
          /\ AudioDecrypted(ncmfile, ncmfile')]_vars

\* C9: for every format tag other than "mp3" and "flac", the empty tag of an
\* empty record included, dump_music leaves the decrypted audio in storage.
RawAudioPersisted ==
  [][(/\ pc = "dump_music"
      /\ ncmfile._metadata.kind = "dict"
      /\ file_type(ncmfile).val \notin {"mp3", "flac"})
       => \E q \in DOMAIN fs' : fs'[q].data = ncmfile._music_data]_vars

\* C10: when dump_music signals an unrecognized format, the iteration logs
\* warnings only and still writes the sidecars whose flags are set.
UnsupportedFormatNonFatal ==
  (pc = "finally" /\ exc = "NotImplementedError")
    => /\ \A i \in 1..Len(log) : log[i].level = "WARNING"
       /\ args.dump_metadata
            => with_suffix(output_path, "json").path \in DOMAIN fs
       /\ args.dump_cover
            => with_suffix(output_path, cover_suffix(ncmfile)).path
                 \in DOMAIN fs

ReachesFallback(f) ==
  /\ EncodesKey(f)
  /\ Len(f.K) > 0
  /\ EncodesDoc(f)
  /\ json_loads(f.doc).exc = "None"
  /\ f.cover = <<>>

\* the record of the file names a cover url
HasCoverUrl(f) ==
  MetadataGet(json_loads(f.doc).val, "albumPic", "").val # ""

\* C12: when _decrypt_metadata reaches its cover fallback, decrypt() either
\* waits for an answer that never comes, or returns without an exception
\* with the metadata it extracted and the audio decrypted; the cover is then
\* the body of a successful response to the record's url, and in every
\* other case (no url, no dict, an exception of urlopen, a status >= 400)
\* it stays empty with size 0.
CoverFetchSwallowed ==
  [][(pc = "decrypt" /\ ReachesFallback(src))
       => \/ (pc' = "urlopen" /\ HasCoverUrl(src))
          \/ /\ pc' = "dump_music"
             /\ exc' = "None"
             /\ ncmfile'._metadata = json_loads(src.doc).val
             /\ AudioDecrypted(ncmfile, ncmfile')
             /\ \/ /\ ncmfile'._cover_data = <<>>
                   /\ ncmfile'._cover_data_size = 0
                \/ /\ HasCoverUrl(src)
                   /\ ncmfile'._cover_data = PNG_COVER
                   /\ ncmfile'._cover_data_size = Len(PNG_COVER)]_vars

CoverFetchSwallowedWitness ==
  /\ pc = "dump_music"
  /\ ReachesFallback(src)
  /\ HasCoverUrl(src)
  /\ ncmfile._metadata = json_loads(DOC_FLAC).val
  /\ ncmfile._cover_data = <<>>
  /\ ncmfile._cover_data_size = 0
  /\ ncmfile._music_data = AUDIOBYTES

\* C13: the cover request always comes back, answered or timed out: the
\* run is never left inside urlopen, a position it has no way out of.
FetchTimesOut ==
  pc # "urlopen"

\* the key segment of the file is a whole number of blocks whose last bytes
\* are no PKCS#7 padding: the pad byte is out of range, or fewer bytes than
\* it says carry its value
KeyPaddingFails(f) ==
  LET n == Len(f.kplain)
  IN  /\ Intact(f)
      /\ n > 0
      /\ n % BLOCK_SIZE = 0
      /\ \/ f.kplain[n] < 1
         \/ f.kplain[n] > BLOCK_SIZE
         \/ \E i \in (n - f.kplain[n] + 1)..n : f.kplain[i] # f.kplain[n]

\* C14: on a file whose key segment does not unpad, decrypt() ends with the
\* ValueError of _decrypt_rc4_key and leaves the object as the constructor
\* made it (no key, no metadata, no audio); the iteration never reaches a
\* dump statement, and nothing is written while the file is the current one.
KeyPaddingAborts ==
  /\ [](KeyPaddingFails(src)
          => pc \notin {"urlopen", "dump_music", "dump_metadata",
                        "dump_cover", "else"})
  /\ [][/\ (pc = "decrypt" /\ KeyPaddingFails(src))
            => (/\ exc' = "ValueError"
                /\ pc' = "except"
                /\ ncmfile' = ncmfile
                /\ ncmfile'._rc4_key = <<>>
                /\ ncmfile'._metadata = EmptyMetadata
                /\ ncmfile'._music_data = <<>>)
        /\ KeyPaddingFails(src) => (fs' = fs)]_vars

KeyPaddingAbortsWitness ==
  /\ pc = "finally"
  /\ KeyPaddingFails(src)
  /\ src.kplain = MisPadded(RC4_KEY_PREFIX \o KEY_1X)
  /\ exc = "ValueError"
  /\ ncmfile._music_data = <<>>
  /\ fs = NoFiles
  /\ log # <<>>

\* the reference pass over i = first..last: j = (j + S[i] + key[i mod
\* len(key)]) mod 256, then S[i] and S[j] are swapped
RECURSIVE ReferencePass(_, _, _, _, _)
ReferencePass(key, S, j, first, last) ==
  IF first > last THEN [S |-> S, j |-> j]
  ELSE LET j2 == (j + S[first] + key[(first % Len(key)) + 1]) % 256
       IN  IF j2 \notin 0..255 THEN [S |-> S, j |-> j2]
           ELSE ReferencePass(key,
                              [S EXCEPT ![first] = S[j2], ![j2] = S[first]],
                              j2, first + 1, last)

\* the reference table S of a key, the pass taken in four stretches
ReferenceS(key) ==
  LET q1 == ReferencePass(key, [i \in 0..255 |-> i], 0, 0, 63)
      q2 == ReferencePass(key, q1.S, q1.j, 64, 127)
      q3 == ReferencePass(key, q2.S, q2.j, 128, 191)
  IN  ReferencePass(key, q3.S, q3.j, 192, 255).S

\* the reference keystream table, entry i read from the final S
ReferenceKeyBox(S, i) ==
  LET j == (i + 1) % 256
      a == S[j]
      b == S[(a + j) % 256]
  IN  S[(a + b) % 256]

\* C15: an engine constructed with a non-empty key holds the table S of the
\* reference pass and, at every i in 0..255, the key_box entry read from the
\* final S; a construction that replaces an engine by one with the same key
\* gives the same two tables.
KeyScheduleIsReference ==
  /\ [](rc4.exc = "None"
          => LET S == ReferenceS(rc4.eng._key)
             IN  /\ Len(rc4.eng._key) > 0
                 /\ rc4.eng._s_box = S
                 /\ DOMAIN rc4.eng._key_box = 0..255
                 /\ \A i \in 0..255 :
                      rc4.eng._key_box[i] = ReferenceKeyBox(S, i))
  /\ [][(/\ rc4.exc = "None"
          /\ rc4'.exc = "None"
          /\ calls' = <<>>
          /\ rc4'.eng._key = rc4.eng._key)
           => (/\ rc4'.eng._s_box = rc4.eng._s_box
               /\ rc4'.eng._key_box = rc4.eng._key_box)]_vars

KeyScheduleIsReferenceWitness ==
  /\ rc4.exc = "None"
  /\ rc4.eng._key = KEY_TESTKEY
  /\ calls = <<>>
  /\ prev.made
  /\ prev.key = KEY_TESTKEY

\* the position of the engine after its i-th call
PosAfter(i) ==
  IF i < Len(calls) THEN calls[i + 1].pos ELSE rc4.eng._key_pos

\* C16: every call of decrypt on an engine at position p with n bytes
\* returns n bytes, byte k being input[k] XOR key_box[(p + k) mod 256], and
\* leaves the position at (p + n) mod 256, always within 0..255.
TransformSemantics ==
  rc4.exc = "None" =>
    /\ rc4.eng._key_pos \in 0..255
    /\ \A i \in 1..Len(calls) :
         LET c == calls[i]
             n == Len(c.data)
         IN  /\ c.pos \in 0..255
             /\ Len(c.out) = n
             /\ \A k \in 0..(n - 1) :
                  c.out[k + 1] =
                    Xor(c.data[k + 1], rc4.eng._key_box[(c.pos + k) % 256])
             /\ PosAfter(i) = (c.pos + n) % 256

TransformSemanticsWitness ==
  /\ rc4.exc = "None"
  /\ Len(calls) = 2
  /\ calls[1].data = LongPayload
  /\ calls[2].pos = Len(LongPayload) - 256
  /\ calls[2].data = <<>>
  /\ calls[2].out = <<>>
  /\ rc4.eng._key_pos = calls[2].pos

\* decrypting data on the engine e in two calls, split at any place, leaves
\* an engine that differs from e in its position only
EngineFrame(e, data) ==
  \A m \in 0..Len(data) :
    LET r1 == NCMRC4_decrypt(e, SubSeq(data, 1, m))
        r2 == NCMRC4_decrypt(r1.eng, SubSeq(data, m + 1, Len(data)))
    IN  /\ r1.eng = [e EXCEPT !._key_pos = m % 256]
        /\ r2.eng = [e EXCEPT !._key_pos = Len(data) % 256]

\* C17: the key that _decrypt_rc4_key derives is the key the object holds
\* when decrypt() is over, however the metadata extraction ends; the engine
\* constructed from it keeps its key and both tables over the calls that
\* decrypt the payload, its position alone moving; and no dump statement or
\* log statement changes the key of the object.
TransformFrame ==
  [][/\ (pc = "decrypt" /\ _decrypt_rc4_key(ncmfile).exc = "None")
        => LET k == _decrypt_rc4_key(ncmfile).self._rc4_key
           IN  /\ ncmfile'._rc4_key = k
               /\ pc' = "dump_music"
                    => (/\ NCMRC4(k).exc = "None"
                        /\ EngineFrame(NCMRC4(k).eng,
                                       ncmfile._music_data_enc))
     /\ (pc \in {"dump_music", "dump_metadata", "dump_cover", "else",
                  "except"} /\ "_rc4_key" \in DOMAIN ncmfile)
        => (ncmfile'._rc4_key = ncmfile._rc4_key)]_vars

TransformFrameWitness ==
  /\ pc = "else"
  /\ ncmfile._rc4_key = KEY_1X
  /\ ncmfile._music_data = AUDIOBYTES
  /\ ncmfile._metadata = json_loads(DOC_MP3).val
  /\ fs # NoFiles

\* what a fresh engine with the key of the engine in use returns for data
FreshDecrypt(data) ==
  NCMRC4_decrypt(NCMRC4(rc4.eng._key).eng, data).plaintext

\* the engine in use has decrypted a chunk A and then a chunk B
Resumed ==
  /\ rc4.exc = "None"
  /\ Len(calls) = 2
  /\ calls[1].pos = 0

\* the key box reads the same bytes from entry len(A) on as from entry 0,
\* over the length of B
SameKeystream(lenA, lenB) ==
  \A k \in 0..(lenB - 1) :
    rc4.eng._key_box[k % 256] = rc4.eng._key_box[(lenA + k) % 256]

\* C18: decrypt(A) then decrypt(B) on one engine return outputs whose
\* concatenation is decrypt(A ++ B) on a fresh engine; and decrypt(B) on a
\* fresh engine returns what the resumed call returned exactly when the key
\* box holds the same bytes from entry len(A) mod 256 on as from entry 0
\* over the length of B, as it does when len(A) is a multiple of 256.
ResumeMidStream ==
  Resumed =>
    LET A == calls[1].data
        B == calls[2].data
    IN  /\ calls[1].out \o calls[2].out = FreshDecrypt(A \o B)
        /\ (FreshDecrypt(B) = calls[2].out)
             <=> SameKeystream(Len(A), Len(B))
        /\ (Len(A) % 256 = 0) => (FreshDecrypt(B) = calls[2].out)

\* C18 as stated: a non-empty B decrypted on a fresh engine gives the
\* resumed result only when len(A) is a multiple of 256.
ResumeOnlyAtMultiples ==
  (Resumed /\ calls[2].data # <<>> /\ FreshDecrypt(calls[2].data) = calls[2].out)
    => Len(calls[1].data) % 256 = 0

ResumeMidStreamWitness ==
  /\ Resumed
  /\ rc4.eng._key = KEY_TESTKEY
  /\ calls[1].data = LongPayload
  /\ calls[2].data = LongPayload
  /\ FreshDecrypt(calls[2].data) # calls[2].out
  /\ rc4.eng._key_pos = (2 * Len(LongPayload)) % 256

\* C19: with both flags set, a failed write of the metadata sidecar is
\* followed by the dump of the cover sidecar; and a failure of the tagging
\* inside dump_music is followed by the dumps of the sidecars asked for.
SidecarIsolation ==
  [][/\ (/\ pc = "dump_metadata"
          /\ args.dump_metadata
          /\ args.dump_cover
          /\ exc' # "None")
        => (pc' = "dump_cover")
     /\ (/\ pc = "dump_music"
          /\ (args.dump_metadata \/ args.dump_cover)
          /\ exc' \in {"MutagenError", "UnidentifiedImageError"})
        => (pc' = "dump_metadata")]_vars

\* "/".join(names)
RECURSIVE Join(_)
Join(names) ==
  IF names = <<>> THEN ""
  ELSE IF Len(names) = 1 THEN names[1]
  ELSE names[1] \o "/" \o Join(Tail(names))

\* the values a tag holds: the one joined string, or the strings of the list
TagValues(t) == IF t.joined THEN <<Join(t.names)>> ELSE t.names

\* C20: every tagged audio file, mp3 or flac, has the name of the record
\* as title, its album as album, and as artist and as album-artist the one
\* string of the artist names joined with "/".
TagValuesJoined ==
  \A p \in DOMAIN fs :
    fs[p].tags.tagged =>
      /\ fs[p].tags.title = name(ncmfile).val
      /\ fs[p].tags.album = album(ncmfile).val
      /\ TagValues(fs[p].tags.artist) = <<Join(artists(ncmfile).val)>>
      /\ TagValues(fs[p].tags.albumartist) = <<Join(artists(ncmfile).val)>>
      /\ TagValues(fs[p].tags.artist) = TagValues(fs[p].tags.albumartist)

\* C21: the cover size the object stores is the length of the cover bytes
\* it holds, after the constructor and after decrypt() with or without a
\* fetch; and a tagged audio file carries a picture exactly when the cover
\* bytes are not empty.
CoverEmbeddedIffPresent ==
  /\ "_cover_data" \in DOMAIN ncmfile
       => ncmfile._cover_data_size = Len(ncmfile._cover_data)
  /\ \A p \in DOMAIN fs :
       fs[p].tags.tagged
         => (fs[p].tags.picture.present <=> Len(ncmfile._cover_data) > 0)

\* C22: from a metadata segment built as the prefix, then the base64 text
\* of the encrypted "music:" ++ record, decrypt() recovers the record,
\* whatever characters the base64 text begins with.
MetadataPrefixLiteral ==
  [][(/\ pc = "decrypt"
      /\ EncodesKey(src)
      /\ src.K = KEY_1X
      /\ EncodesDoc(src)
      /\ json_loads(src.doc).exc = "None")
       => (ncmfile'._metadata = json_loads(src.doc).val)]_vars

\* text begins with the whole of prefix
StartsWith(text, prefix) ==
  Len(text) >= Len(prefix) /\ SubSeq(text, 1, Len(prefix)) = prefix

\* C23: when the key segment holds a padded plaintext P that does not begin
\* with the whole prefix, the key of the object after decrypt() is P.
KeyWithoutPrefixKept ==
  [][(/\ pc = "decrypt"
      /\ Intact(src)
      /\ src.kplain = pad(src.K)
      /\ ~StartsWith(src.K, RC4_KEY_PREFIX))
       => (ncmfile'._rc4_key = src.K)]_vars

\* the key segment of the file is a whole number of blocks that unpads
KeyRecovers(f) ==
  /\ Intact(f)
  /\ Len(f.kplain) > 0
  /\ Len(f.kplain) % BLOCK_SIZE = 0
  /\ ~KeyPaddingFails(f)

\* C27: on a file whose key segment unpads, an empty recovered key
\* included, decrypt() does not end with an error of the construction of
\* the engine, and when it returns the payload is decrypted with the
\* recovered key.
EmptyKeyDecrypts ==
  [][(pc = "decrypt" /\ KeyRecovers(src))
       => /\ exc' # "ZeroDivisionError"
          /\ pc' = "dump_music" => AudioDecrypted(ncmfile, ncmfile')]_vars

\* C24: on a file with an empty metadata segment and a key that decodes,
\* decrypt() returns without an exception and without a request: the
\* metadata is the empty record, the cover and its size are what the
\* constructor read, the key is the one _decrypt_rc4_key derived, and the
\* audio is decrypted.
EmptyMetadataSegment ==
  [][(/\ pc = "decrypt"
      /\ EncodesKey(src)
      /\ Len(src.K) > 0
      /\ src.mplain = <<>>)
       => (/\ ncmfile._metadata_enc_size = 0
           /\ pc' = "dump_music"
           /\ exc' = "None"
           /\ ncmfile'._metadata = EmptyMetadata
           /\ ncmfile'._cover_data = ncmfile._cover_data
           /\ ncmfile'._cover_data_size = ncmfile._cover_data_size
           /\ ncmfile'._rc4_key = _decrypt_rc4_key(ncmfile).self._rc4_key
           /\ AudioDecrypted(ncmfile, ncmfile'))]_vars

EmptyMetadataSegmentWitness ==
  /\ pc = "dump_music"
  /\ EncodesKey(src)
  /\ src.mplain = <<>>
  /\ src.cover = <<>>
  /\ ncmfile._metadata_enc_size = 0
  /\ ncmfile._metadata = EmptyMetadata
  /\ ncmfile._cover_data = <<>>
  /\ ncmfile._rc4_key = KEY_1X
  /\ ncmfile._music_data = AUDIOBYTES

\* C25: decrypt(), the call that unlocks the key, extracts the metadata and
\* decrypts the payload, makes no request for the cover: the cover bytes
\* and their size after it are the ones the constructor read.
FetchOutsideExtraction ==
  [][(pc = "decrypt" /\ pc' # "urlopen")
       => (/\ ncmfile'._cover_data = ncmfile._cover_data
           /\ ncmfile'._cover_data_size = ncmfile._cover_data_size)]_vars

(***************************************************************************)
(* The public calls of NeteaseCloudMusicFile, made by a client in any      *)
(* order on the object of one file                                         *)
(***************************************************************************)
\* the files the client opens
CallSources ==
  {BaseFile,
   Cut(5),
   WithRecord(DOC_FLAC, <<>>),
   WithRecord(DOC_FLAC, PNG_COVER),
   WithRecord(DOC_MP3_ARTISTS, PNG_COVER),
   WithRecord(DOC_XYZ, PNG_COVER),
   [BaseFile EXCEPT !.doc = <<>>, !.mplain = <<>>],
   [BaseFile EXCEPT !.K = <<>>, !.kplain = pad(RC4_KEY_PREFIX)],
   [BaseFile EXCEPT !.K = <<>>, !.kplain = BadlyPadded(RC4_KEY_PREFIX)],
   [BaseFile EXCEPT !.mplain = BadlyPadded(METADATA_JSON_PREFIX \o DOC_MP3)]}

InitCalls ==
  /\ args = [dump_metadata |-> FALSE, dump_cover |-> FALSE]
  /\ files = <<>>
  /\ reported = <<>>
  /\ pc = "client"
  /\ idx = 0
  /\ ncm_path = <<"a", "ncm">>
  /\ src \in CallSources
  /\ content = FileBytes(src)
  /\ ncmfile = NoObject
  /\ output_path = <<"a">>
  /\ music_path = NoPath
  /\ exc = "None"
  /\ fs = NoFiles
  /\ log = <<>>
  /\ rc4 = NoEngine
  /\ calls = <<>>
  /\ prev = NoCall
  /\ rc4_init = NoLoop
  /\ asmr = NoDownload

\* the client holds an object the constructor returned
Constructed == "_music_data" \in DOMAIN ncmfile

\* ncmfile = NeteaseCloudMusicFile(ncm_path); a constructor that raises
\* binds nothing
ClientNew ==
  /\ pc = "client"
  /\ LET r == _parse(content)
     IN  /\ ncmfile' = IF r.exc = "None" THEN r.self ELSE ncmfile
         /\ exc' = r.exc
  /\ UNCHANGED <<asmr, cipher, args, files, reported, pc, idx, ncm_path, src,
                 content, output_path, music_path, fs, log>>

\* ncmfile.decrypt(), its exception caught by the client
ClientDecrypt ==
  /\ pc = "client"
  /\ Constructed
  /\ \E net \in NetAnswers :
       LET r == decrypt(ncmfile, net)
       IN  /\ ncmfile' = r.self
           /\ exc' = IF r.exc = "(blocked)" THEN "None" ELSE r.exc
           /\ pc' = IF r.exc = "(blocked)" THEN "urlopen" ELSE "client"
  /\ UNCHANGED <<asmr, cipher, args, files, reported, idx, ncm_path, src, content,
                 output_path, music_path, fs, log>>

\* ncmfile.dump_music(output_path), its exception caught by the client
ClientDumpMusic ==
  /\ pc = "client"
  /\ Constructed
  /\ \E tagenv \in TagAnswers :
       LET r == dump_music(ncmfile, output_path, tagenv, fs)
       IN  /\ fs' = r.fs
           /\ exc' = r.exc
           /\ music_path' = IF r.exc = "None" THEN r.path ELSE music_path
  /\ UNCHANGED <<asmr, cipher, args, files, reported, pc, idx, ncm_path, src,
                 content, ncmfile, output_path, log>>

NextCalls == ClientNew \/ ClientDecrypt \/ ClientDumpMusic

SpecCalls == InitCalls /\ [][NextCalls]_vars

\* C26: a call that writes an audio file finds the payload of the object
\* decrypted with its key, so dump_music before decrypt() or after a
\* decrypt() that raised writes nothing; and a call that gives the object
\* audio bytes leaves them decrypted with the key the object then holds.
PipelineOrdering ==
  [][/\ (fs' # fs) => (Constructed /\ AudioDecrypted(ncmfile, ncmfile))
     /\ (Constructed /\ ncmfile'._music_data \notin {ncmfile._music_data, <<>>})
        => AudioDecrypted(ncmfile, ncmfile')]_vars

\* C28: every file an iteration writes has the stem of the input file, so
\* that files with different stems never write to one path.
OutputStemIsInputStem ==
  \A p \in DOMAIN fs : PathStem(p) = PathStem(ncm_path)

(***************************************************************************)
(* NCMRC4.__init__ taken one pass of a loop at a time                      *)
(***************************************************************************)
\* the keys the constructor is run with (one of them is empty)
ScheduleKeys == CipherKeys \cup {<<0>>, <<255, 255>>, KEY_KEY}

InitSchedule ==
  /\ args = [dump_metadata |-> FALSE, dump_cover |-> FALSE]
  /\ files = <<>>
  /\ reported = <<>>
  /\ pc = "end"
  /\ idx = 0
  /\ Idle
  /\ rc4 = NoEngine
  /\ calls = <<>>
  /\ prev = NoCall
  /\ asmr = NoDownload
  /\ \E key \in ScheduleKeys :
       rc4_init = [at      |-> "s_box",
                   key     |-> key,
                   s_box   |-> [i \in 0..(BOX_SIZE - 1) |-> i],
                   key_box |-> [i \in 0..(BOX_SIZE - 1) |-> 0],
                   i       |-> 0,
                   j       |-> 0]

\* one pass of "for i in range(256)" of the standard RC4 init; the index
\* i % len(self._key) raises on the empty key
SBoxStep ==
  /\ rc4_init.at = "s_box"
  /\ rc4_init' =
       IF Len(rc4_init.key) = 0
       THEN [rc4_init EXCEPT !.at = "ZeroDivisionError"]
       ELSE LET st == KeyScheduleStep(rc4_init.key,
                                      [s_box |-> rc4_init.s_box,
                                       j     |-> rc4_init.j],
                                      rc4_init.i)
                last == rc4_init.i = BOX_SIZE - 1
            IN  [rc4_init EXCEPT !.s_box = st.s_box,
                                 !.j = st.j,
                                 !.i = IF last THEN 0 ELSE rc4_init.i + 1,
                                 !.at = IF last THEN "key_box" ELSE "s_box"]
  /\ UNCHANGED <<rc4, calls, prev, batch, asmr>>

\* one pass of "for i in range(256)" of the keybox generation
KeyBoxStep ==
  /\ rc4_init.at = "key_box"
  /\ LET last == rc4_init.i = BOX_SIZE - 1
     IN  rc4_init' =
           [rc4_init EXCEPT
              !.key_box[rc4_init.i] = KeyBox(rc4_init.s_box)[rc4_init.i],
              !.i = IF last THEN 0 ELSE rc4_init.i + 1,
              !.at = IF last THEN "done" ELSE "key_box"]
  /\ UNCHANGED <<rc4, calls, prev, batch, asmr>>

NextSchedule == SBoxStep \/ KeyBoxStep

SpecSchedule == InitSchedule /\ [][NextSchedule]_vars

\* C29: before and after each pass of the first loop, and from then on, the
\* table S holds every value of 0..255 exactly once, and every entry of
\* the key box is a value of S in 0..255.
PermutationInvariant ==
  rc4_init.at \in {"s_box", "key_box", "done"} =>
    /\ DOMAIN rc4_init.s_box = 0..255
    /\ \A v \in 0..255 :
         Cardinality({i \in 0..255 : rc4_init.s_box[i] = v}) = 1
    /\ \A i \in 0..255 :
         /\ rc4_init.key_box[i] \in 0..255
         /\ (rc4_init.at = "done" \/ (rc4_init.at = "key_box" /\ i < rc4_init.i))
              => \E k \in 0..255 : rc4_init.key_box[i] = rc4_init.s_box[k]

PermutationInvariantWitness ==
  /\ rc4_init.at = "done"
  /\ rc4_init.key = KEY_TESTKEY
  /\ rc4_init.s_box = NCMRC4(KEY_TESTKEY).eng._s_box
  /\ rc4_init.key_box = NCMRC4(KEY_TESTKEY).eng._key_box
  /\ rc4_init.s_box # [i \in 0..255 |-> i]

(***************************************************************************)
(* AsmrSite.download_file, called for the files of a track, run after run  *)
(***************************************************************************)
InitDownload ==
  /\ args = [dump_metadata |-> FALSE, dump_cover |-> FALSE]
  /\ files = <<>>
  /\ reported = <<>>
  /\ pc = "end"
  /\ idx = 0
  /\ Idle
  /\ rc4 = NoEngine
  /\ calls = <<>>
  /\ prev = NoCall
  /\ rc4_init = NoLoop
  /\ asmr = NoDownload

\* one call of download_file
DownloadFile ==
  /\ \E save_path \in SavePaths, head \in Answers, get \in Answers, open \in OpenAnswers :
       LET r == download_file(asmr.files, save_path, head, get, open)
       IN  asmr' = [files |-> r.files,
                    last  |-> [made      |-> TRUE,
                               save_path |-> save_path,
                               before    |-> asmr.files[save_path],
                               get       |-> get,
                               ret       |-> r.ret]]
  /\ UNCHANGED <<cipher, batch>>

NextDownload == DownloadFile

SpecDownload == InitDownload /\ [][NextDownload]_vars

\* C30: a call that does not skip and whose request fails (the session
\* raises, or the status is not ok) returns False and leaves no file at
\* save_path; a call returns True only if it skipped a file of size > 0 or
\* wrote the whole body of an ok response; every file a later run would
\* skip holds the media.
DownloadFailureHandled ==
  asmr.last.made =>
    LET l == asmr.last
        f == asmr.files[l.save_path]
        skipped == l.before.is_file /\ l.before.st_size > 0
        failed == l.get.raises \/ l.get.status_code >= 400
    IN  /\ (~skipped /\ failed) => (l.ret = FALSE /\ ~f.is_file)
        /\ l.ret = TRUE
             => \/ skipped
                \/ (~failed /\ f = SavedFile(l.get.body))
        /\ \A p \in SavePaths :
             (asmr.files[p].is_file /\ asmr.files[p].st_size > 0)
               => asmr.files[p].data = MEDIA

=============================================================================
